---- MODULE Spec2Model ----
(***************************************************************************)
(* Model of xenonpy/utils/datatools.py: the Saver (a directory-backed,     *)
(* name-partitioned artifact store) and the scheme check of the Loader.    *)
(*                                                                         *)
(* A file name is the sequence of its dot-separated segments, so that      *)
(* "a.@2.pkl.z" is <<"a", "@2", "pkl", "z">>; a logical name is the        *)
(* sequence of the segments of the keyword it was saved under.             *)
(***************************************************************************)
EXTENDS Integers, Sequences, FiniteSets, TLC

\* ------------------------------------------------------------------ bounds
\* largest version number an append may assign
MaxVer == 3
\* payloads are 1..MaxData, each as a DataFrame or as another object
MaxData == 1
\* modification times are 0..MaxClock
MaxClock == 1
\* values passed to one call of the Saver
MaxItems == 1
\* values passed to one call in the behaviours with three names
MaxItemsWide == 2
\* integer positions and slice ends are -MaxIdx..MaxIdx
MaxIdx == 1
\* calls made on the store in one behaviour
MaxCalls == 5
\* calls in one behaviour with three names
MaxCallsWide == 3
\* fetches in one behaviour of the Loader
MaxFetches == 2
\* values passed to one call in the behaviours that compare a call of several
\* values with calls of one value
MaxItemsBatch == 3
\* calls in one such behaviour
MaxCallsBatch == 2
\* calls of the Loader, and changes of its environment, in one behaviour
MaxLoads == 3
\* constructions of descriptors in one behaviour
MaxMakes == 1
\* calls in a session whose files can be removed from outside
MaxCallsGone == 4
\* characters in the scheme of a URL
MaxSchemeLen == 5

\* ------------------------------------------------------------ input sets
Names == {<<"unnamed">>, <<"a">>}

NamesWide == Names \cup {<<"b">>}

UNNAMED == <<"unnamed">>

Values == [tab : BOOLEAN, d : 1..MaxData]

\* objects that pickle refuses, as payload 0
Unpicklable == [tab : BOOLEAN, d : {0}]

ValuesBatch == Values \cup Unpicklable

\* an optional argument: <<>> is None, <<x>> is x
Opt(S) == {<<>>} \cup {<<x>> : x \in S}

IdxRange == (0 - MaxIdx)..MaxIdx

\* the indexes tried: int positions, the slices [lo:] and the slices [:hi] and
\* [0:hi], with lo and hi positive, zero or negative
Indexes == [slice : {FALSE}, lo : {<<i>> : i \in IdxRange}, hi : {<<>>}]
             \cup [slice : {TRUE}, lo : Opt(IdxRange), hi : {<<>>}]
             \cup [slice : {TRUE}, lo : Opt({0}), hi : Opt(IdxRange)]

\* --------------------------------------------------------- file names
\* str(num) behind the '@' of a file name
MarkerStr == <<"@1", "@2", "@3", "@4", "@5", "@6", "@7", "@8", "@9">>

Marker(num) == MarkerStr[num]

IsMarker(seg) == \E n \in DOMAIN MarkerStr : MarkerStr[n] = seg

MarkerNum(seg) == CHOOSE n \in DOMAIN MarkerStr : MarkerStr[n] = seg

\* re.findall(r'\.@\d+\.', str(path)): the markers that stand between two
\* dots, left to right, no two matches sharing a dot
RECURSIVE FindAll(_, _, _)
FindAll(path, i, dotFree) ==
    IF i > Len(path) THEN <<>>
    ELSE IF i > 1 /\ i < Len(path) /\ dotFree /\ IsMarker(path[i])
         THEN <<MarkerNum(path[i])>> \o FindAll(path, i + 1, FALSE)
         ELSE FindAll(path, i + 1, TRUE)

\* f.name.split('.')[:-3] joined again: the logical name of a file
StemOf(path) == SubSeq(path, 1, Len(path) - 3)

\* f.match('*.pkl.*')
IsArtifact(path) == Len(path) >= 3 /\ path[Len(path) - 1] = "pkl"

\* ------------------------------------------------------------- the codec
\* pd.to_pickle / joblib.dump: the bytes written for a value
PdToPickle(v) == [enc |-> "pd", d |-> v.d]

JoblibDump(v) == [enc |-> "joblib", tab |-> v.tab, d |-> v.d]

\* pd.read_pickle / joblib.load: <<v>> when the bytes decode, <<>> when not
PdReadPickle(bytes) ==
    IF bytes.enc = "pd" THEN <<[tab |-> TRUE, d |-> bytes.d]>> ELSE <<>>

JoblibLoad(bytes) ==
    IF bytes.enc = "joblib" THEN <<[tab |-> bytes.tab, d |-> bytes.d]>> ELSE <<>>

\* ------------------------------------------------------------------ state
VARIABLES
    root,      \* the store root directory exists
    disk,      \* path -> [bytes, mtime] for the files of the store root
    files,     \* Saver._files: logical name -> list of paths (a defaultdict)
    clock,     \* the filesystem clock
    ret,       \* the last call: what was asked and what came back
    target,    \* the last dump: what was asked, and the directory after it
    issued,    \* history: name -> version numbers assigned in this session
    recent,    \* history: those assigned since the last removal under the name
    calls,     \* calls made so far
    run,       \* history: name -> values appended since the name was empty
    url,       \* the scheme of the URL the Loader is asked for
    gets,      \* requests.get calls the Loader has made
    written,   \* the files the Loader has written
    lret,      \* the last call of the Loader: what was asked, what came back
    asked,     \* history: the arguments of the last save
    twin,      \* history: the store the same values leave when saved one by one
    cache,     \* preset -> the file dataset_dir/<preset>.pkl.pd_
    ddir,      \* the directory dataset_dir exists
    dirs,      \* the directories <userdata root>/<name> that exist
    env,       \* the userdata root that getenv / get_conf give now
    lroot,     \* Loader.userdata_dir, read when the Loader was made
    done,      \* history: the presets a load has returned
    rret,      \* the last load: what was asked and what came back
    cret       \* the last descriptor constructed: arguments and outcome

saver == <<root, disk, files, clock, ret, target, issued, recent, run>>

loader == <<url, gets, written, lret>>

batch == <<asked, twin>>

resolver == <<cache, ddir, dirs, env, lroot, done, rret>>

composer == <<cret>>

\* what the sessions on one store and the fetches leave alone
others == <<batch, resolver, composer>>

vars == <<calls, saver, loader, others>>

\* self._files[fn] of a defaultdict(list): the list, and the key it leaves
Hist(fs, fn) == IF fn \in DOMAIN fs THEN fs[fn] ELSE <<>>

Touch(fs, fn) == IF fn \in DOMAIN fs THEN fs ELSE fs @@ (fn :> <<>>)

NoFiles == [fn \in {} |-> <<>>]

Drop(f, keys) == [x \in (DOMAIN f) \ keys |-> f[x]]

\* Saver._load_data on a path: status and decoded value
LoadData(dk, path) ==
    IF path \notin DOMAIN dk THEN [status |-> "FileNotFoundError", value |-> <<>>]
    ELSE LET dec == IF path[Len(path)] = "pd_" THEN PdReadPickle(dk[path].bytes)
                    ELSE JoblibLoad(dk[path].bytes)
         IN  IF dec = <<>> THEN [status |-> "DecodeError", value |-> <<>>]
             ELSE [status |-> "ok", value |-> dec]

\* a path with the tag .pkl.z whatever the value
SavePathZ(v, filename) == filename \o <<"pkl", "z">>

\* Saver._save_data: the path written and the disk after it
SavePath(v, filename) ==
    IF v.tab THEN filename \o <<"pkl", "pd_">> ELSE filename \o <<"pkl", "z">>

SaveBytes(v) == IF v.tab THEN PdToPickle(v) ELSE JoblibDump(v)

SaveData(dk, v, filename, now) ==
    LET file == SavePath(v, filename)
    IN  [file |-> file,
         disk |-> [p \in (DOMAIN dk) \cup {file} |->
                     IF p = file THEN [bytes |-> SaveBytes(v), mtime |-> now]
                     ELSE dk[p]]]

\* pickling a value succeeds
Encodes(v) == v.d >= 1

\* pd.to_pickle and joblib.dump open the file for writing before they pickle:
\* a value that does not pickle leaves the file, cut, at the path
CutData(dk, v, filename, now) ==
    LET file == SavePath(v, filename)
    IN  [p \in (DOMAIN dk) \cup {file} |->
           IF p = file THEN [bytes |-> [enc |-> "cut"], mtime |-> now] ELSE dk[p]]

\* a numbering that parses the first file of the history, not the last
GetFileIndexFirst(fs, fn) ==
    IF Len(Hist(fs, fn)) # 0
    THEN LET found == FindAll(Hist(fs, fn)[1], 1, TRUE)
         IN  IF found = <<>> THEN <<>> ELSE <<found[Len(found)]>>
    ELSE <<0>>

\* a numbering that keeps one counter, that of 'unnamed', for every name
GetFileIndexUnnamed(fs, fn) ==
    IF Len(Hist(fs, UNNAMED)) # 0
    THEN LET found == FindAll(Hist(fs, UNNAMED)[Len(Hist(fs, UNNAMED))], 1, TRUE)
         IN  IF found = <<>> THEN <<>> ELSE <<found[Len(found)]>>
    ELSE <<0>>

\* Saver.__call__._get_file_index: <<n>>, or <<>> when findall finds nothing
GetFileIndex(fs, fn) ==
    IF Len(Hist(fs, fn)) # 0
    THEN LET found == FindAll(Hist(fs, fn)[Len(Hist(fs, fn))], 1, TRUE)
         IN  IF found = <<>> THEN <<>> ELSE <<found[Len(found)]>>
    ELSE <<0>>

\* ------------------------------------------------------------ Saver.__call__
\* what a call leaves in ret: the method, the name it was given, whether the
\* index was a slice and the positions it named, how the call ended, the
\* decoded value(s) returned, and for a save each value's number and path
Ret(op, name, slice, pos, status, value, nums) ==
    [op |-> op, name |-> name, slice |-> slice, pos |-> pos, status |-> status,
     value |-> value, nums |-> nums]

\* the store while a call of the Saver runs
Store == [root |-> root, disk |-> disk, files |-> files, clock |-> clock,
          issued |-> issued, recent |-> recent, run |-> run, status |-> "ok", nums |-> <<>>]

\* a pass of the loop body that does not make the store root
SaveItemNoMkdir(st, fn, num, d, tick) ==
    LET now   == st.clock + tick
        saved == SaveData(st.disk, d, fn \o <<Marker(num)>>, now)
        fs    == Touch(st.files, fn)
    IN  [st EXCEPT !.disk   = saved.disk,
                   !.clock  = now,
                   !.files  = [fs EXCEPT ![fn] = Append(@, saved.file)],
                   !.nums   = Append(@, [fn |-> fn, num |-> num, file |-> saved.file,
                                         d |-> d, mkdir |-> ~st.root,
                                         existed |-> saved.file \in DOMAIN st.disk,
                                         issued |-> st.issued[fn],
                                         recent |-> st.recent[fn]]),
                   !.issued = [@ EXCEPT ![fn] = @ \cup {num}],
                   !.recent = [@ EXCEPT ![fn] = @ \cup {num}],
                   !.run    = [@ EXCEPT ![fn] =
                                 IF @.ok THEN [@ EXCEPT !.vals = Append(@, d)] ELSE @]]

\* one pass of either loop body: save d as fn.@num and append the path
SaveItem(st, fn, num, d, tick) ==
    LET now   == st.clock + tick
        saved == SaveData(st.disk, d, fn \o <<Marker(num)>>, now)
        fs    == Touch(st.files, fn)
    IN  [st EXCEPT !.root   = TRUE,
                   !.disk   = saved.disk,
                   !.clock  = now,
                   !.files  = [fs EXCEPT ![fn] = Append(@, saved.file)],
                   !.nums   = Append(@, [fn |-> fn, num |-> num, file |-> saved.file,
                                         d |-> d, mkdir |-> ~st.root,
                                         existed |-> saved.file \in DOMAIN st.disk,
                                         issued |-> st.issued[fn],
                                         recent |-> st.recent[fn]]),
                   !.issued = [@ EXCEPT ![fn] = @ \cup {num}],
                   !.recent = [@ EXCEPT ![fn] = @ \cup {num}],
                   !.run    = [@ EXCEPT ![fn] =
                                 IF @.ok THEN [@ EXCEPT !.vals = Append(@, d)] ELSE @]]

\* a pass of either loop body that raises in _save_data: the directory is
\* made, the file is opened, and the path is not appended
FailItem(st, fn, num, d, tick) ==
    [st EXCEPT !.root   = TRUE,
               !.disk   = CutData(st.disk, d, fn \o <<Marker(num)>>, st.clock + tick),
               !.clock  = st.clock + tick,
               !.status = "PicklingError"]

\* the loop over data with every unnamed value of a call under one number
RECURSIVE UnnamedLoopSame(_, _, _, _, _)
UnnamedLoopSame(st, data, ticks, i, num) ==
    IF i > Len(data) THEN st
    ELSE LET got == GetFileIndex(st.files, UNNAMED)
             st1 == [st EXCEPT !.files = Touch(@, UNNAMED)]
         IN  IF got = <<>> THEN [st1 EXCEPT !.status = "IndexError"]
             ELSE IF ~Encodes(data[i])
             THEN FailItem(st1, UNNAMED, got[1] + 1, data[i], ticks[i])
             ELSE UnnamedLoopSame(SaveItem(st1, UNNAMED, got[1] + 1 - (IF i > 1 THEN 1 ELSE 0),
                                           data[i], ticks[i]),
                                  data, ticks, i + 1, 0)

\* for d in data: the unnamed values, numbered on from the last unnamed file
RECURSIVE UnnamedLoop(_, _, _, _, _)
UnnamedLoop(st, data, ticks, i, num) ==
    IF i > Len(data) THEN st
    ELSE LET got == IF num = 0 THEN GetFileIndex(st.files, UNNAMED) ELSE <<num>>
             st1 == IF num = 0 THEN [st EXCEPT !.files = Touch(@, UNNAMED)] ELSE st
         IN  IF got = <<>> THEN [st1 EXCEPT !.status = "IndexError"]
             ELSE IF ~Encodes(data[i])
             THEN FailItem(st1, UNNAMED, got[1] + 1, data[i], ticks[i])
             ELSE UnnamedLoop(SaveItem(st1, UNNAMED, got[1] + 1, data[i], ticks[i]),
                              data, ticks, i + 1, got[1] + 1)

\* the loop over named_data going on after a value that did not pickle
RECURSIVE NamedLoopOn(_, _, _, _)
NamedLoopOn(st, named, ticks, i) ==
    IF i > Len(named) THEN st
    ELSE LET k   == named[i].k
             got == GetFileIndex(st.files, k)
             st1 == [st EXCEPT !.files = Touch(@, k)]
         IN  IF got = <<>> THEN [st1 EXCEPT !.status = "IndexError"]
             ELSE IF ~Encodes(named[i].v)
             THEN NamedLoopOn(FailItem(st1, k, got[1] + 1, named[i].v, ticks[i]),
                              named, ticks, i + 1)
             ELSE NamedLoopOn(SaveItem(st1, k, got[1] + 1, named[i].v, ticks[i]),
                              named, ticks, i + 1)

\* for k, v in named_data.items(): each numbered after the last file of k
RECURSIVE NamedLoop(_, _, _, _)
NamedLoop(st, named, ticks, i) ==
    IF i > Len(named) \/ st.status # "ok" THEN st
    ELSE LET k   == named[i].k
             got == GetFileIndex(st.files, k)
             st1 == [st EXCEPT !.files = Touch(@, k)]
         IN  IF got = <<>> THEN [st1 EXCEPT !.status = "IndexError"]
             ELSE IF ~Encodes(named[i].v)
             THEN FailItem(st1, k, got[1] + 1, named[i].v, ticks[i])
             ELSE NamedLoop(SaveItem(st1, k, got[1] + 1, named[i].v, ticks[i]),
                            named, ticks, i + 1)

Call(st, data, named, ticks) ==
    NamedLoop(UnnamedLoop(st, data, ticks, 1, 0), named,
              SubSeq(ticks, Len(data) + 1, Len(ticks)), 1)

SeqsUpTo(S, n) == UNION {[1..k -> S] : k \in 0..n}

\* **named_data: keyword arguments, no keyword twice
KeywordsOf(vals, names, n) ==
    {kw \in SeqsUpTo([k : names, v : vals], n) :
        \A i, j \in 1..Len(kw) : i # j => kw[i].k # kw[j].k}

Keywords(names, n) == KeywordsOf(Values, names, n)

\* the calls save(*data, **named_data) of one to n values; ticks[i] is how far
\* the filesystem clock moves before the i-th value is written
CallArgsOf(vals, names, n) ==
    UNION {[data : {dn[1]}, named : {dn[2]},
            ticks : [1..(Len(dn[1]) + Len(dn[2])) -> 0..1]] :
           dn \in {x \in SeqsUpTo(vals, n) \X KeywordsOf(vals, names, n) :
                     Len(x[1]) + Len(x[2]) \in 1..n}}

CallArgsOver(names, n) == CallArgsOf(Values, names, n)

CallArgs == CallArgsOver(Names, MaxItems)

CallArgsWide == CallArgsOver(NamesWide, MaxItemsWide)

\* save(*data, **named_data)
SaverCallOn(calls_) ==
    \E args \in calls_ :
       \E st \in {Call(Store, args.data, args.named, args.ticks)} :
           /\ st.clock <= MaxClock
           /\ \A i \in 1..Len(st.nums) : st.nums[i].num <= MaxVer
           /\ root' = st.root
           /\ disk' = st.disk
           /\ files' = st.files
           /\ clock' = st.clock
           /\ issued' = st.issued
           /\ recent' = st.recent
           /\ run' = st.run
           /\ ret' = Ret("append", <<>>, FALSE, {}, st.status, <<>>, st.nums)
           /\ UNCHANGED target

SaverCall == SaverCallOn(CallArgs)

\* the same with a third name and more values in one call
SaverCallWide == SaverCallOn(CallArgsWide)

\* the values of a call saved by calls of one value each, in the order of the
\* call, up to the first call that raises
RECURSIVE Singles(_, _, _, _, _)
Singles(st, data, named, ticks, i) ==
    IF i > Len(data) + Len(named) \/ st.status # "ok" THEN st
    ELSE IF i <= Len(data)
    THEN Singles(Call(st, <<data[i]>>, <<>>, <<ticks[i]>>), data, named, ticks, i + 1)
    ELSE Singles(Call(st, <<>>, <<named[i - Len(data)]>>, <<ticks[i]>>),
                 data, named, ticks, i + 1)

\* the calls of up to MaxItemsBatch values, written within one tick of the
\* filesystem clock
CallArgsBatch ==
    {args \in CallArgsOf(ValuesBatch, Names, MaxItemsBatch) :
        \A i \in 2..Len(args.ticks) : args.ticks[i] = 0}

\* save(*data, **named_data) of up to MaxItemsBatch values, some of which may
\* not pickle, with the record of what one-value calls would have left
SaverBatch ==
    \E args \in CallArgsBatch :
       /\ SaverCallOn({args})
       /\ asked' = <<args>>
       /\ \E st \in {Singles(Store, args.data, args.named, args.ticks, 1)} :
             twin' = [root |-> st.root, disk |-> st.disk, files |-> st.files,
                      status |-> st.status]

\* ---------------------------------------------------------------- Saver.last
\* the name a call acts on: d_name, or 'unnamed' when it is omitted
FnOf(d_name) == IF d_name = <<>> THEN UNNAMED ELSE d_name[1]

\* a last that reads the first file of the history
LastOfFirst(fs, dk, d_name) ==
    LET fn == FnOf(d_name)
        h  == Hist(fs, fn)
    IN  IF Len(h) = 0 THEN [status |-> "IndexError", value |-> <<>>]
        ELSE LoadData(dk, h[1])

\* what last(d_name) returns in a store
LastOf(fs, dk, d_name) ==
    LET fn == FnOf(d_name)
        h  == Hist(fs, fn)
    IN  IF Len(h) = 0 THEN [status |-> "IndexError", value |-> <<>>]
        ELSE LoadData(dk, h[Len(h)])

Last ==
    \E d_name \in Opt(Names) :
      LET fn == FnOf(d_name)
          r  == LastOf(files, disk, d_name)
      IN  /\ files' = Touch(files, fn)
          /\ ret' = Ret("last", d_name, FALSE, {}, r.status, r.value, <<>>)
          /\ UNCHANGED <<root, disk, clock, target, issued, recent, run>>

\* ------------------------------------------------------ list[index] of Python
\* a slice end on a list of n: None is the default, a negative end counts from
\* the back, and both are clipped to 0..n
SliceEnd(end, default, n) ==
    IF end = <<>> THEN default
    ELSE IF end[1] < 0 THEN (IF end[1] + n < 0 THEN 0 ELSE end[1] + n)
    ELSE IF end[1] > n THEN n ELSE end[1]

\* the positions (1..n) that list[index] names; an int out of range raises
Select(n, index) ==
    IF index.slice
    THEN [err |-> FALSE,
          pos |-> (SliceEnd(index.lo, 0, n) + 1)..SliceEnd(index.hi, n, n)]
    ELSE LET i == index.lo[1]
         IN  IF i >= n \/ i < 0 - n THEN [err |-> TRUE, pos |-> {}]
             ELSE [err |-> FALSE, pos |-> {(IF i < 0 THEN i + n ELSE i) + 1}]

\* the elements of list s at the positions pos, in list order
RECURSIVE Pick(_, _, _)
Pick(s, pos, i) ==
    IF i > Len(s) THEN <<>>
    ELSE (IF i \in pos THEN <<s[i]>> ELSE <<>>) \o Pick(s, pos, i + 1)

\* for f in paths: remove(str(f)), which raises at the first missing file
RECURSIVE RemoveEach(_, _, _)
RemoveEach(dk, paths, i) ==
    IF i > Len(paths) THEN [ok |-> TRUE, disk |-> dk]
    ELSE IF paths[i] \notin DOMAIN dk THEN [ok |-> FALSE, disk |-> dk]
    ELSE RemoveEach(Drop(dk, {paths[i]}), paths, i + 1)

\* history: a name whose history is empty starts a new run of appends, and a
\* removal from a history that stays non-empty ends the run
RunAfter(fs, rn, broken) ==
    [fn \in DOMAIN rn |->
       IF Len(Hist(fs, fn)) = 0 THEN [ok |-> TRUE, vals |-> <<>>]
       ELSE IF fn \in broken THEN [ok |-> FALSE, vals |-> <<>>]
       ELSE rn[fn]]

\* ------------------------------------------------------------------ Saver.rm
Rm ==
    \E index \in Indexes, d_name \in Opt(Names) :
      LET fn  == FnOf(d_name)
          fs  == Touch(files, fn)
          sel == Select(Len(fs[fn]), index)
      IN  \E rem \in {RemoveEach(disk, Pick(fs[fn], sel.pos, 1), 1)} :
          \E fs2 \in {IF sel.err \/ ~rem.ok THEN fs
                      ELSE [fs EXCEPT ![fn] =
                              Pick(@, (1..Len(@)) \ sel.pos, 1)]} :
            /\ disk' = rem.disk
            /\ files' = fs2
            /\ ret' = Ret("rm", d_name, index.slice, sel.pos,
                          IF sel.err THEN "IndexError"
                          ELSE IF rem.ok THEN "ok" ELSE "FileNotFoundError",
                          <<>>, <<>>)
            /\ run' = RunAfter(fs2, run,
                               IF disk' # disk \/ fs2[fn] # fs[fn] THEN {fn} ELSE {})
            /\ recent' = [recent EXCEPT ![fn] =
                            IF disk' # disk \/ fs2[fn] # fs[fn] THEN {} ELSE @]
            /\ UNCHANGED <<root, clock, target, issued>>

\* a file of the store root is removed by something other than the Saver: the
\* file is gone and the Saver, which keeps no watch on the directory, is as it
\* was
Unlink ==
    \E p \in DOMAIN disk :
      /\ disk' = Drop(disk, {p})
      /\ ret' = Ret("unlink", <<>>, FALSE, {}, "ok", <<>>, <<>>)
      /\ UNCHANGED <<root, files, clock, target, issued, recent, run>>

\* --------------------------------------------------------------- Saver.clean
\* clean(): rmtree of the store root, which raises when the root is gone
CleanAll ==
    /\ IF root
       THEN /\ root' = FALSE
            /\ disk' = NoFiles
            /\ files' = NoFiles
            /\ recent' = [fn \in DOMAIN recent |-> {}]
            /\ run' = RunAfter(NoFiles, run, {})
            /\ ret' = Ret("clean", <<>>, FALSE, {}, "ok", <<>>, <<>>)
       ELSE /\ ret' = Ret("clean", <<>>, FALSE, {}, "FileNotFoundError", <<>>, <<>>)
            /\ UNCHANGED <<root, disk, files, recent, run>>
    /\ UNCHANGED <<clock, target, issued>>

\* clean(data_name)
CleanName ==
    \E fn \in Names :
      LET fs == Touch(files, fn)
      IN  \E rem \in {RemoveEach(disk, fs[fn], 1)} :
          \E fs2 \in {IF rem.ok THEN Drop(fs, {fn}) ELSE fs} :
            /\ disk' = rem.disk
            /\ files' = fs2
            /\ ret' = Ret("clean", <<fn>>, FALSE, {},
                          IF rem.ok THEN "ok" ELSE "FileNotFoundError",
                          <<>>, <<>>)
            /\ run' = RunAfter(fs2, run, IF disk' # disk THEN {fn} ELSE {})
            /\ recent' = [recent EXCEPT ![fn] = IF disk' # disk THEN {} ELSE @]
            /\ UNCHANGED <<root, clock, target, issued>>

\* ------------------------------------------------------------ Saver.__init__
\* fs.sort(key=getmtime) over the files iterdir yields in no promised order:
\* every arrangement of the set by ascending mtime, ties in either order
RECURSIVE SortedByMtime(_, _)
SortedByMtime(dk, paths) ==
    IF paths = {} THEN {<<>>}
    ELSE UNION {{Append(q, p) : q \in SortedByMtime(dk, paths \ {p})} :
                p \in {x \in paths :
                         \A y \in paths : dk[y].mtime <= dk[x].mtime}}

\* Saver._make_file_index: the indexes a scan of the store root can build
MakeFileIndex(dk) ==
    LET found == {f \in DOMAIN dk : IsArtifact(f)}
        stems == {StemOf(f) : f \in found}
        group(fn) == {f \in found : StemOf(f) = fn}
    IN  {fs \in [stems -> UNION {SortedByMtime(dk, group(fn)) : fn \in stems}] :
           \A fn \in stems : fs[fn] \in SortedByMtime(dk, group(fn))}

\* the store is closed and a Saver is opened on the same directory
Reopen ==
    /\ root' = TRUE
    /\ files' \in MakeFileIndex(disk)
    /\ issued' = [fn \in DOMAIN issued |-> {}]
    /\ recent' = [fn \in DOMAIN recent |-> {}]
    /\ run' = RunAfter(files', run, DOMAIN run)
    /\ ret' = Ret("open", <<>>, FALSE, {}, "ok", <<>>, <<>>)
    /\ UNCHANGED <<disk, clock, target>>

\* ----------------------------------------------------------- Saver.__getitem__
\* [self._load_data(f) for f in paths], which raises at the first failure
RECURSIVE LoadEach(_, _, _)
LoadEach(dk, paths, i) ==
    IF i > Len(paths) THEN [status |-> "ok", value |-> <<>>]
    ELSE LET one == LoadData(dk, paths[i])
         IN  IF one.status # "ok" THEN one
             ELSE LET rest == LoadEach(dk, paths, i + 1)
                  IN  IF rest.status # "ok" THEN rest
                      ELSE [status |-> "ok", value |-> one.value \o rest.value]

\* _load_file(files, item_): one decoded value for an int, a list for a slice
LoadFile(dk, h, index) ==
    LET sel == Select(Len(h), index)
    IN  IF sel.err THEN [status |-> "IndexError", value |-> <<>>]
        ELSE LoadEach(dk, Pick(h, sel.pos, 1), 1)

WholeList == [slice |-> TRUE, lo |-> <<>>, hi |-> <<>>]

\* save[key, index], save[key] and save[index]; any other tuple is refused
Items == [kind : {"tuple"}, key : Names, index : Indexes]
           \cup [kind : {"str"}, key : Names, index : {WholeList}]
           \cup [kind : {"bare"}, key : {UNNAMED}, index : Indexes]
           \cup [kind : {"bad"}, key : {UNNAMED}, index : {WholeList}]

GetItem ==
    \E item \in Items :
      IF item.kind = "bad"
      THEN /\ ret' = Ret("get", <<>>, FALSE, {}, "ValueError", <<>>, <<>>)
           /\ UNCHANGED <<root, disk, files, clock, target, issued, recent, run>>
      ELSE LET fs == Touch(files, item.key)
               r  == LoadFile(disk, fs[item.key], item.index)
           IN  /\ files' = fs
               /\ ret' = Ret("get", <<item.key>>, item.index.slice, {},
                             r.status, r.value, <<>>)
               /\ UNCHANGED <<root, disk, clock, target, issued, recent, run>>

\* ----------------------------------------------------------------- Saver.dump
\* {k: self._load_data(v[-1]) for k, v in self._files.items()}: the statuses
\* the comprehension can end with (a key that fails raises; which failing key
\* comes first is the insertion order of the dict) and the mapping it builds
DumpStatus(fs, dk) ==
    LET bad == {LastOf(fs, dk, <<k>>).status : k \in DOMAIN fs} \ {"ok"}
    IN  IF bad = {} THEN {"ok"} ELSE bad

DumpMapping(fs, dk) == [k \in DOMAIN fs |-> LastOf(fs, dk, <<k>>).value[1]]

\* the archive path: name + datetime + '.pkl.z' under fpath
ArchivePath(rename, with_datetime, now) ==
    [stem  |-> IF rename # <<>> THEN rename[1] ELSE "dataset",
     stamp |-> IF with_datetime THEN <<now>> ELSE <<>>,
     ext   |-> <<"pkl", "z">>]

\* dump(fpath, rename=..., with_datetime=...) into a directory that is absent
\* or empty before the call
Dump ==
    \E exists \in BOOLEAN, rename \in Opt({"snap"}), with_datetime \in BOOLEAN :
    \E status \in DumpStatus(files, disk) :
      /\ target' = [rename |-> rename, with_datetime |-> with_datetime,
                    exists |-> exists \/ status = "ok",
                    archives |-> IF status = "ok"
                                 THEN ArchivePath(rename, with_datetime, clock)
                                        :> DumpMapping(files, disk)
                                 ELSE NoFiles]
      /\ ret' = Ret("dump", <<>>, FALSE, {}, status, <<>>, <<>>)
      /\ UNCHANGED <<root, disk, files, clock, issued, recent, run>>

\* ------------------------------------------------------- Loader._fetch_data
\* the scheme of a URL, as urlparse gives it: a sequence of characters
SchemeChars == {"f", "h", "p", "s", "t"}

Schemes == SeqsUpTo(SchemeChars, MaxSchemeLen)

HTTP == <<"h", "t", "t", "p">>

HTTPS == <<"h", "t", "t", "p", "s">>

\* sub in s, for strings
Contains(s, sub) ==
    \E i \in 0..(Len(s) - Len(sub)) : SubSeq(s, i + 1, i + Len(sub)) = sub

\* what requests.get(url) comes to: a success status with the whole body, a
\* success status with a body that breaks off, an error status or no
\* connection; requests has connection adapters for http:// and https:// only
\* and raises InvalidSchema for every other URL
Answers(scheme) ==
    IF scheme \in {HTTP, HTTPS} THEN {"200", "cut", "404", "ConnectionError"}
    ELSE {"InvalidSchema"}

\* an _http_data that opens save_to before it looks at the status
HttpDataOpensFirst(scheme, answer) ==
    [op |-> "fetch", scheme |-> scheme, gets |-> 1,
     status |-> IF answer = "200" THEN "ok"
                ELSE IF answer = "404" THEN "HTTPError"
                ELSE IF answer = "cut" THEN "ChunkedEncodingError" ELSE answer,
     wrote |-> answer \in {"200", "cut", "404"}]

\* Loader._http_data: requests.get, raise_for_status, then the body is written
\* to save_to
HttpData(scheme, answer) ==
    [op |-> "fetch", scheme |-> scheme, gets |-> 1,
     status |-> IF answer = "200" THEN "ok"
                ELSE IF answer = "404" THEN "HTTPError"
                ELSE IF answer = "cut" THEN "ChunkedEncodingError" ELSE answer,
     wrote |-> answer \in {"200", "cut"}]

\* Loader._fetch_data(url, save_to)
FetchResult(scheme, answer) ==
    IF Contains(scheme, HTTP) THEN HttpData(scheme, answer)
    ELSE [op |-> "fetch", scheme |-> scheme, gets |-> 0,
          status |-> "ValueError", wrote |-> FALSE]

FetchData ==
    \E answer \in Answers(url) :
      \E r \in {FetchResult(url, answer)} :
        /\ lret' = r
        /\ UNCHANGED url
        /\ gets' = gets + r.gets
        /\ written' = IF r.wrote THEN written \cup {"save_to"} ELSE written

\* ---------------------------------------------------------- Loader.__call__
\* self.dataset: the preset names
Presets == {"elements", "sample_A"}

\* names of user datasets, without '/'
UserNames == {"mine"}

\* the directories getenv('userdata') / get_conf('userdata') can name
Roots == {"r1", "r2"}

\* names with a '/': URLs, by their scheme
UrlNames == {HTTPS, <<"f", "t", "p">>}

\* dataset.exists() of a preset that is fetched whatever the directory holds
ExistsNever(c, dname) == FALSE

\* dataset.exists() for the file of a preset
Exists(c, dname) == c[dname] # "absent"

\* what open(save_to, 'wb') and the chunk loop leave of the file: the whole
\* body, or the part received before the stream broke
Body(answer) == IF answer = "200" THEN "whole" ELSE "cut"

\* pd.read_pickle(str(dataset)) of a preset file
ReadPreset(c, dname) ==
    IF c[dname] = "whole" THEN "ok"
    ELSE IF c[dname] = "cut" THEN "UnpicklingError" ELSE "FileNotFoundError"

\* dname in self.dataset: fetch the file when it is absent, then read it
LoadPreset(dname, answer) ==
    LET miss == ~Exists(cache, dname)
        r    == FetchResult(HTTPS, answer)
        \* open(save_to, 'wb') needs the directory of the file
        st   == IF miss /\ r.wrote /\ ~ddir THEN "FileNotFoundError"
                ELSE IF miss THEN r.status ELSE "ok"
        c2   == IF miss /\ r.wrote /\ ddir
                THEN [cache EXCEPT ![dname] = Body(answer)] ELSE cache
        out  == IF st = "ok" THEN ReadPreset(c2, dname) ELSE st
    IN  /\ (~miss => answer = "200")
        /\ cache' = c2
        /\ gets' = gets + (IF miss THEN r.gets ELSE 0)
        /\ done' = IF out = "ok" THEN done \cup {dname} ELSE done
        /\ rret' = [op |-> "load", kind |-> "preset", dname |-> <<dname>>,
                    status |-> out, value |-> <<>>, again |-> dname \in done,
                    retry |-> /\ rret.kind = "preset"
                              /\ rret.dname = <<dname>>
                              /\ rret.status = "HTTPError"]
        /\ UNCHANGED <<dirs, written>>

\* '/' not in dname: the directory is looked for under self.userdata_dir, and
\* Saver(dname) opens, and makes when it is missing, the directory of that name
\* under the userdata root as it is read again
LoadUser(dname) ==
    LET found == <<lroot, dname>> \in dirs
    IN  /\ dirs' = IF found THEN dirs \cup {<<env, dname>>} ELSE dirs
        /\ rret' = [op |-> "load", kind |-> "user", dname |-> <<dname>>,
                    status |-> IF found THEN "ok" ELSE "FileNotFoundError",
                    value |-> IF found THEN <<<<env, dname>>>> ELSE <<>>,
                    again |-> FALSE, retry |-> FALSE]
        /\ UNCHANGED <<cache, gets, done, written>>

\* any other dname is fetched as a URL into the cached directory
LoadUrl(scheme, answer) ==
    LET r == FetchResult(scheme, answer)
    IN  /\ gets' = gets + r.gets
        /\ written' = IF r.wrote THEN written \cup {"cached"} ELSE written
        /\ rret' = [op |-> "load", kind |-> "url", dname |-> <<scheme>>,
                    status |-> r.status, value |-> <<>>, again |-> FALSE,
                    retry |-> FALSE]
        /\ UNCHANGED <<cache, dirs, done>>

\* Loader.__call__(dname)
LoaderCall ==
    /\ \/ \E dname \in Presets, answer \in Answers(HTTPS) : LoadPreset(dname, answer)
       \/ \E dname \in UserNames : LoadUser(dname)
       \/ \E scheme \in UrlNames : \E answer \in Answers(scheme) :
             LoadUrl(scheme, answer)
    /\ UNCHANGED <<ddir, env, lroot, url, lret>>

\* the environment variable 'userdata' (or the configuration) is set anew
SetEnv ==
    /\ env' \in Roots \ {env}
    /\ UNCHANGED <<cache, ddir, dirs, lroot, done, rret, gets, written, url, lret>>

\* ------------------------------------------- descriptor/composition.py
\* the columns of an element table
Cols == {"c1", "c2"}

\* include / exclude: None, or a list of column names (here as a set)
ColLists == Opt(SUBSET Cols)

Featurizers == {"WeightedAvgFeature", "WeightedSumFeature", "WeightedVarFeature",
                "MaxFeature", "MinFeature"}

\* the truth value of an optional list: None and [] are false
Truthy(x) == x # <<>> /\ x[1] # {}

\* elements = preset.elements_completed when None, then elements[include],
\* then elements.drop(exclude, axis=1); a name that is no column of the table
\* raises KeyError
Filter(cls, elements, include, exclude) ==
    LET table == IF elements = <<>> THEN Cols ELSE elements[1]
        inc   == IF include = <<>> THEN table ELSE include[1]
        bad   == \/ include # <<>> /\ ~(include[1] \subseteq table)
                 \/ exclude # <<>> /\ ~(exclude[1] \subseteq inc)
    IN  [cls |-> cls, elements |-> elements, include |-> include,
         exclude |-> exclude,
         status |-> IF bad THEN "KeyError" ELSE "ok",
         loaded |-> elements = <<>>,
         filtered |-> include # <<>> \/ exclude # <<>>,
         cols |-> IF bad THEN <<>>
                  ELSE <<IF exclude = <<>> THEN inc ELSE inc \ exclude[1]>>]

\* _CompositionalFeature.__init__, which the five featurizers call
CompositionalFeature(cls, elements, include, exclude) ==
    IF Truthy(include) /\ Truthy(exclude)
    THEN [cls |-> cls, elements |-> elements, include |-> include,
          exclude |-> exclude, status |-> "ValueError", loaded |-> FALSE,
          filtered |-> FALSE, cols |-> <<>>]
    ELSE Filter(cls, elements, include, exclude)

\* Compositions.__init__: the table is filtered, then the five featurizers are
\* made from the filtered table with neither include nor exclude
Compositions(elements, include, exclude) ==
    LET own == Filter("Compositions", elements, include, exclude)
    IN  IF own.status # "ok" THEN own
        ELSE LET subs == {CompositionalFeature(f, own.cols, <<>>, <<>>).status :
                            f \in Featurizers}
             IN  IF subs = {"ok"} THEN own
                 ELSE [own EXCEPT !.status = CHOOSE x \in subs : x # "ok"]

\* a featurizer or the descriptor is constructed
Make ==
    \E cls \in Featurizers \cup {"Compositions"}, elements \in Opt({Cols}),
       include \in ColLists, exclude \in ColLists :
       cret' = IF cls = "Compositions" THEN Compositions(elements, include, exclude)
               ELSE CompositionalFeature(cls, elements, include, exclude)

\* ------------------------------------------------------------------- start
NoRun == [ok |-> TRUE, vals |-> <<>>]

InitSaver ==
    /\ root = TRUE
    /\ disk = NoFiles
    /\ files = NoFiles
    /\ clock = 0
    /\ ret = Ret("open", <<>>, FALSE, {}, "ok", <<>>, <<>>)
    /\ target = [rename |-> <<>>, with_datetime |-> FALSE, exists |-> FALSE,
                 archives |-> NoFiles]
    /\ issued = [fn \in NamesWide |-> {}]
    /\ recent = [fn \in NamesWide |-> {}]
    /\ run = [fn \in NamesWide |-> NoRun]

InitLoader(schemes) ==
    /\ url \in schemes
    /\ gets = 0
    /\ written = {}
    /\ lret = [op |-> "none", scheme |-> <<>>, gets |-> 0, status |-> "ok",
               wrote |-> FALSE]

InitBatch ==
    /\ asked = <<>>
    /\ twin = [root |-> TRUE, disk |-> NoFiles, files |-> NoFiles, status |-> "ok"]

\* a Loader is made: its userdata_dir is the userdata root of that moment
InitResolver(dds, dirsets) ==
    /\ cache = [p \in Presets |-> "absent"]
    /\ ddir \in dds
    /\ dirs \in dirsets
    /\ env = "r1"
    /\ lroot = env
    /\ done = {}
    /\ rret = [op |-> "none", kind |-> "none", dname |-> <<>>, status |-> "ok",
               value |-> <<>>, again |-> FALSE, retry |-> FALSE]

InitComposer ==
    cret = [cls |-> "none", elements |-> <<>>, include |-> <<>>, exclude |-> <<>>,
            status |-> "ok", loaded |-> FALSE, filtered |-> FALSE, cols |-> <<>>]

InitRest == InitBatch /\ InitResolver({TRUE}, {{}}) /\ InitComposer

Init == calls = 0 /\ InitSaver /\ InitLoader({HTTP}) /\ InitRest

\* one more call, while the behaviour is within its bound
Count == calls < MaxCalls /\ calls' = calls + 1

CountWide == calls < MaxCallsWide /\ calls' = calls + 1

CountLoader == calls < MaxFetches /\ calls' = calls + 1

\* a session on one store of the names "unnamed" and "a"
Next ==
    \/ Count /\ SaverCall /\ UNCHANGED <<loader, others>>
    \/ Count /\ Last /\ UNCHANGED <<loader, others>>
    \/ Count /\ Rm /\ UNCHANGED <<loader, others>>
    \/ Count /\ CleanAll /\ UNCHANGED <<loader, others>>
    \/ Count /\ CleanName /\ UNCHANGED <<loader, others>>
    \/ Count /\ Reopen /\ UNCHANGED <<loader, others>>
    \/ Count /\ GetItem /\ UNCHANGED <<loader, others>>
    \/ Count /\ Dump /\ UNCHANGED <<loader, others>>

Spec == Init /\ [][Next]_vars

\* a session that saves under three names, several values in one call
NextWide ==
    \/ CountWide /\ SaverCallWide /\ UNCHANGED <<loader, others>>
    \/ CountWide /\ Last /\ UNCHANGED <<loader, others>>
    \/ CountWide /\ Rm /\ UNCHANGED <<loader, others>>
    \/ CountWide /\ Reopen /\ UNCHANGED <<loader, others>>

SpecWide == Init /\ [][NextWide]_vars

\* the Loader fetching URLs
InitFetch == calls = 0 /\ InitSaver /\ InitLoader(Schemes) /\ InitRest

NextLoader == CountLoader /\ FetchData /\ UNCHANGED <<saver, others>>

SpecLoader == InitFetch /\ [][NextLoader]_vars

\* a session whose saves carry several values, some of which do not pickle
CountBatch == calls < MaxCallsBatch /\ calls' = calls + 1

NextBatch ==
    \/ CountBatch /\ SaverBatch /\ UNCHANGED <<loader, resolver, composer>>
    \/ CountBatch /\ Rm /\ UNCHANGED <<loader, others>>
    \/ CountBatch /\ CleanAll /\ UNCHANGED <<loader, others>>
    \/ CountBatch /\ Reopen /\ UNCHANGED <<loader, others>>

SpecBatch == Init /\ [][NextBatch]_vars

\* a Loader asked for presets, user datasets and URLs while the userdata root
\* may be set anew
InitLoads ==
    /\ calls = 0
    /\ InitSaver
    /\ InitLoader({HTTP})
    /\ InitBatch
    /\ InitResolver(BOOLEAN, SUBSET (Roots \X UserNames))
    /\ InitComposer

CountLoads == calls < MaxLoads /\ calls' = calls + 1

NextLoads ==
    \/ CountLoads /\ LoaderCall /\ UNCHANGED <<saver, batch, composer>>
    \/ CountLoads /\ SetEnv /\ UNCHANGED <<saver, batch, composer>>

SpecLoads == InitLoads /\ [][NextLoads]_vars

\* descriptors being constructed
CountMakes == calls < MaxMakes /\ calls' = calls + 1

NextMakes == CountMakes /\ Make /\ UNCHANGED <<saver, loader, batch, resolver>>

SpecMakes == Init /\ [][NextMakes]_vars

\* a session on a store some of whose files are removed from outside
CountGone == calls < MaxCallsGone /\ calls' = calls + 1

NextGone ==
    \/ CountGone /\ SaverCall /\ UNCHANGED <<loader, others>>
    \/ CountGone /\ Rm /\ UNCHANGED <<loader, others>>
    \/ CountGone /\ Unlink /\ UNCHANGED <<loader, others>>

SpecGone == Init /\ [][NextGone]_vars

\* ================================================================== claims

\* C1: from an empty history of a name, after N >= 1 successive appends under
\* the name with no removal in between, the history has length N and last
\* returns the N-th appended value.
C1_AppendsGiveLatest ==
    \A fn \in Names :
       run[fn].ok /\ Len(run[fn].vals) >= 1 =>
          /\ Len(Hist(files, fn)) = Len(run[fn].vals)
          /\ LastOf(files, disk, <<fn>>)
               = [status |-> "ok", value |-> <<run[fn].vals[Len(run[fn].vals)]>>]

\* two appends of different values under one name, and nothing removed since
C1_Witness ==
    /\ ret.op = "append"
    /\ \E fn \in Names :
          /\ run[fn].ok
          /\ Len(run[fn].vals) >= 2
          /\ run[fn].vals[Len(run[fn].vals)] # run[fn].vals[1]

\* C2: a save never writes to a path at which a file of the store root still
\* exists, whatever order the files had when the store was opened.
C2_NoOverwrite ==
    ret.op = "append" => \A i \in 1..Len(ret.nums) : ~ret.nums[i].existed

\* C3, as claimed: the version number a save assigns is 1-based and greater
\* than every number assigned earlier in the session under the same name, also
\* after rm or clean removed artifacts of the name.
C3_NeverReused ==
    ret.op = "append" =>
       \A i \in 1..Len(ret.nums) :
          /\ ret.nums[i].num >= 1
          /\ \A m \in ret.nums[i].issued : ret.nums[i].num > m

\* C3, amended: the version number a save assigns is 1-based and greater than
\* every number assigned under the same name since the last removal of
\* artifacts of that name (or since the session began).
C3_IncreasingSinceRemoval ==
    ret.op = "append" =>
       \A i \in 1..Len(ret.nums) :
          /\ ret.nums[i].num >= 1
          /\ \A m \in ret.nums[i].recent : ret.nums[i].num > m

\* a save after a removal and a later save under the same name
C3_Witness ==
    /\ ret.op = "append"
    /\ \E i \in 1..Len(ret.nums) :
          /\ ret.nums[i].recent # {}
          /\ ret.nums[i].issued # ret.nums[i].recent

\* C4: rm(0, name) on a history of length N >= 1 leaves a history of length
\* N - 1; last(name) then returns what it returned before if N > 1, and raises
\* IndexError if N = 1.
C4_DeleteFirst ==
    [][\A fn \in Names :
          ( /\ calls' = calls + 1
            /\ ret'.op = "rm"
            /\ FnOf(ret'.name) = fn
            /\ ~ret'.slice
            /\ ret'.pos = {1} )
          => /\ Len(Hist(files', fn)) = Len(Hist(files, fn)) - 1
             /\ Len(Hist(files, fn)) > 1 =>
                  LastOf(files', disk', <<fn>>) = LastOf(files, disk, <<fn>>)
             /\ Len(Hist(files, fn)) = 1 =>
                  LastOf(files', disk', <<fn>>).status = "IndexError"]_vars

\* C5: a save under names other than b changes neither the history of b nor
\* the number the next save under b receives, for keyword values, for unnamed
\* values and for both in one call.
C5_OtherNamesUntouched ==
    [][(calls' = calls + 1 /\ ret'.op = "append") =>
          \A b \in NamesWide :
             (\A i \in 1..Len(ret'.nums) : ret'.nums[i].fn # b) =>
                /\ Hist(files', b) = Hist(files, b)
                /\ GetFileIndex(files', b) = GetFileIndex(files, b)
                /\ \A p \in (DOMAIN disk) \cup (DOMAIN disk') :
                      StemOf(p) = b => p \in DOMAIN disk /\ p \in DOMAIN disk'
                                       /\ disk'[p] = disk[p]]_vars

\* one call saves an unnamed value and a value under "a" while "b" has history
C5_Witness ==
    /\ ret.op = "append"
    /\ Len(ret.nums) = 2
    /\ ret.nums[1].fn = UNNAMED
    /\ ret.nums[2].fn = <<"a">>
    /\ Len(Hist(files, <<"b">>)) >= 2

\* C6: last(name) returns the decoded artifact at the end of the history of
\* the name, of "unnamed" when no name is given, and raises IndexError,
\* returning nothing, when the name has no artifacts.
C6_LatestIsLastOfHistory ==
    \A d_name \in Opt(Names) :
       LET h == Hist(files, IF d_name = <<>> THEN <<"unnamed">> ELSE d_name[1])
           r == LastOf(files, disk, d_name)
       IN  IF Len(h) = 0
           THEN r = [status |-> "IndexError", value |-> <<>>]
           ELSE r.status = "ok" /\ r = LoadData(disk, h[Len(h)])

\* C7: rm(index, name) removes exactly the targeted artifacts of the name from
\* the disk and from the history, keeps the order of the others, and changes
\* no other name; with no name it acts on "unnamed".
C7_DeleteExactly ==
    [][(calls' = calls + 1 /\ ret'.op = "rm") =>
          LET fn   == IF ret'.name = <<>> THEN <<"unnamed">> ELSE ret'.name[1]
              h    == Hist(files, fn)
              gone == {h[i] : i \in ret'.pos}
              kept == Pick(h, (1..Len(h)) \ ret'.pos, 1)
          IN  /\ Hist(files', fn) = kept
              /\ DOMAIN disk' = (DOMAIN disk) \ gone
              /\ \A p \in DOMAIN disk' : disk'[p] = disk[p]
              /\ \A i \in 1..Len(kept) :
                    kept[i] \in DOMAIN disk => kept[i] \in DOMAIN disk'
              /\ \A g \in Names \ {fn} : Hist(files', g) = Hist(files, g)]_vars

\* C8: clean() deletes the store root and leaves the index without any name;
\* clean(name) deletes every file of the name and the entry of the name,
\* leaves the other names alone, and does nothing, without error, when the
\* name has no artifacts.
C8_Clear ==
    [][(calls' = calls + 1 /\ ret'.op = "clean") =>
          IF ret'.name = <<>>
          THEN ~root' /\ disk' = NoFiles /\ DOMAIN files' = {}
          ELSE LET fn == ret'.name[1]
               IN  /\ fn \notin DOMAIN files'
                   /\ \A p \in DOMAIN disk' : StemOf(p) # fn
                   /\ \A p \in DOMAIN disk :
                         StemOf(p) # fn => p \in DOMAIN disk' /\ disk'[p] = disk[p]
                   /\ \A g \in Names \ {fn} : Hist(files', g) = Hist(files, g)
                   /\ Len(Hist(files, fn)) = 0 =>
                         ret'.status = "ok" /\ disk' = disk]_vars

\* C9: in every state of the store dump succeeds and writes exactly one
\* archive, whose keys are the names that have an artifact and whose values
\* are their latest artifacts; with rename = r and no timestamp it is r.pkl.z,
\* and the target directory exists afterwards.
C9_Export ==
    ret.op = "dump" =>
       /\ ret.status = "ok"
       /\ target.exists
       /\ Cardinality(DOMAIN target.archives) = 1
       /\ \A p \in DOMAIN target.archives :
             /\ DOMAIN target.archives[p]
                  = {fn \in Names : Len(Hist(files, fn)) >= 1}
             /\ \A fn \in DOMAIN target.archives[p] :
                   LastOf(files, disk, <<fn>>)
                     = [status |-> "ok", value |-> <<target.archives[p][fn]>>]
             /\ (target.rename # <<>> /\ ~target.with_datetime) =>
                   p = [stem |-> target.rename[1], stamp |-> <<>>,
                        ext |-> <<"pkl", "z">>]

\* C10: a fetch of a URL whose scheme is neither http nor https raises the
\* unsupported-scheme error before requests.get is called or a file written:
\* only http and https reach the download.
C10_SchemeRejected ==
    (lret.op = "fetch" /\ lret.scheme \notin {HTTP, HTTPS}) =>
       /\ lret.status = "ValueError"
       /\ lret.gets = 0
       /\ ~lret.wrote

\* C11: a load of a preset calls requests.get exactly when the file of the
\* preset is absent, and once a load of the preset has returned, every later
\* load of it returns without a request, whatever the network would answer,
\* and leaves the file as it is.
C11_CacheHit ==
    [][(calls' = calls + 1 /\ env' = env /\ rret'.op = "load"
        /\ rret'.kind = "preset") =>
          LET p == rret'.dname[1]
          IN  /\ (gets' # gets) <=> (cache[p] = "absent")
              /\ p \in done => /\ rret'.status = "ok"
                               /\ gets' = gets
                               /\ cache' = cache]_vars

\* a second load of a preset returned, one request made in all
C11_Witness ==
    /\ rret.op = "load"
    /\ rret.kind = "preset"
    /\ rret.again
    /\ rret.status = "ok"
    /\ gets = 1

\* C12: a load of a name without '/' that is no preset raises
\* FileNotFoundError and makes no directory when <userdata root>/name is no
\* directory, and otherwise returns a Saver whose root is the directory that
\* was looked for.
C12_UserDataset ==
    [][(calls' = calls + 1 /\ env' = env /\ rret'.op = "load"
        /\ rret'.kind = "user") =>
          LET n == rret'.dname[1]
          IN  IF <<lroot, n>> \in dirs
              THEN rret'.status = "ok" /\ rret'.value = <<<<lroot, n>>>>
              ELSE rret'.status = "FileNotFoundError" /\ dirs' = dirs]_vars

\* C13: every value a save has written is under the tag .pkl.pd_ when it is a
\* DataFrame and .pkl.z when not, and _load_data of the file gives the value
\* back.
C13_RoundTrip ==
    ret.op = "append" =>
       \A i \in 1..Len(ret.nums) :
          LET it == ret.nums[i]
          IN  /\ SubSeq(it.file, Len(it.file) - 1, Len(it.file))
                   = IF it.d.tab THEN <<"pkl", "pd_">> ELSE <<"pkl", "z">>
              /\ LoadData(disk, it.file) = [status |-> "ok", value |-> <<it.d>>]

\* one call has saved a DataFrame and another object
C13_Witness ==
    /\ ret.op = "append"
    /\ \E i, j \in 1..Len(ret.nums) : ret.nums[i].d.tab /\ ~ret.nums[j].d.tab

\* C14: a call with unnamed and keyword values leaves the directory, the files
\* and the histories that saving the same values one call each, in the same
\* order, leaves; also when a keyword is 'unnamed'.
C14_BatchIsSingles ==
    ret.op = "append" =>
       twin = [root |-> root, disk |-> disk, files |-> files,
               status |-> ret.status]

\* a call of two unnamed values and a value under the keyword 'unnamed'
C14_Witness ==
    /\ ret.op = "append"
    /\ ret.status = "ok"
    /\ Len(ret.nums) = 3
    /\ Len(asked[1].data) = 2
    /\ asked[1].named[1].k = UNNAMED

\* C15, on every store: save[name] returns the decoded history of the name,
\* in the order of the appends while nothing was removed; save[name, i] one
\* value and save[name, slice] the sub-list; only an int out of range raises.
C15_GetReturnsHistory ==
    \A key \in Names, index \in Indexes \cup {WholeList} :
       LET h   == Hist(files, key)
           sel == Select(Len(h), index)
           r   == LoadFile(disk, h, index)
       IN  IF sel.err THEN r.status = "IndexError"
           ELSE /\ r.status = "ok"
                /\ Len(r.value) = Cardinality(sel.pos)
                /\ (run[key].ok /\ index = WholeList) => r.value = run[key].vals

\* C16: opening a Saver on the directory of a session gives every name the
\* history, and the last value, it had in the session.
C16_ReopenKeepsHistories ==
    [][(calls' = calls + 1 /\ ret'.op = "open") =>
          \A fn \in Names :
             /\ Hist(files', fn) = Hist(files, fn)
             /\ LastOf(files', disk', <<fn>>) = LastOf(files, disk, <<fn>>)]_vars

\* C17: when the j-th value of a call does not pickle the call raises, the
\* j - 1 values before it are on the disk and in the history of their names,
\* and nothing of the values after it is written.
C17_FailureKeepsEarlier ==
    [][(calls' = calls + 1 /\ ret'.op = "append"
        /\ ret'.status = "PicklingError") =>
          LET args    == asked'[1]
              all     == [i \in 1..Len(args.data) |-> [k |-> UNNAMED, v |-> args.data[i]]]
                           \o args.named
              j       == CHOOSE x \in 1..Len(all) :
                            /\ ~Encodes(all[x].v)
                            /\ \A y \in 1..(x - 1) : Encodes(all[y].v)
              kept == {ret'.nums[i].file : i \in 1..Len(ret'.nums)}
              changed == {p \in DOMAIN disk' : p \notin DOMAIN disk \/ disk'[p] # disk[p]}
          IN  /\ Len(ret'.nums) = j - 1
              /\ \A i \in 1..(j - 1) :
                    /\ ret'.nums[i].fn = all[i].k
                    /\ LoadData(disk', ret'.nums[i].file)
                         = [status |-> "ok", value |-> <<all[i].v>>]
                    /\ \E x \in 1..Len(Hist(files', all[i].k)) :
                          Hist(files', all[i].k)[x] = ret'.nums[i].file
              /\ DOMAIN disk \subseteq DOMAIN disk'
              /\ Cardinality(changed \ kept) <= 1
              /\ \A p \in changed \ kept : disk'[p].bytes.enc = "cut"
              /\ \A fn \in Names :
                    Len(Hist(files', fn)) = Len(Hist(files, fn))
                       + Cardinality({i \in 1..(j - 1) : all[i].k = fn})]_vars

\* the second of three values did not pickle
C17_Witness ==
    /\ ret.op = "append"
    /\ ret.status = "PicklingError"
    /\ Len(ret.nums) = 1
    /\ Len(asked[1].data) + Len(asked[1].named) = 3

\* C18: each of the five featurizers and Compositions, given both a non-empty
\* include and a non-empty exclude, raises ValueError with no element table
\* loaded or filtered.
C18_BothRefused ==
    (cret.cls # "none" /\ Truthy(cret.include) /\ Truthy(cret.exclude)) =>
       /\ cret.status = "ValueError"
       /\ ~cret.loaded
       /\ ~cret.filtered

\* C19: every path of the index names a file of the store root, every
\* artifact file of the store root is in the index, and no path is in the
\* index twice.
C19_IndexAgreesWithDisk ==
    /\ \A fn \in DOMAIN files : \A i \in 1..Len(files[fn]) :
          files[fn][i] \in DOMAIN disk
    /\ \A p \in DOMAIN disk :
          IsArtifact(p) => \E fn \in DOMAIN files : \E i \in 1..Len(files[fn]) :
                              files[fn][i] = p
    /\ \A fn \in DOMAIN files : \A i, j \in 1..Len(files[fn]) :
          i # j => files[fn][i] # files[fn][j]

\* C20: a save after clean() has removed the store root succeeds, makes the
\* root again, and the values of the call are the only artifacts of their
\* names, the last of them under a name being what last returns.
C20_SaveAfterClean ==
    [][(calls' = calls + 1 /\ ret'.op = "append" /\ ~root) =>
          /\ ret'.status = "ok"
          /\ root'
          /\ Len(ret'.nums) >= 1
          /\ \A i \in 1..Len(ret'.nums) :
                LET it   == ret'.nums[i]
                    mine == {k \in 1..Len(ret'.nums) : ret'.nums[k].fn = it.fn}
                    top  == CHOOSE k \in mine : \A m \in mine : m <= k
                    h    == Hist(files', it.fn)
                IN  /\ Len(h) = Cardinality(mine)
                    /\ \E x \in 1..Len(h) : h[x] = it.file
                    /\ it.file \in DOMAIN disk'
                    /\ LastOf(files', disk', <<it.fn>>)
                         = [status |-> "ok", value |-> <<ret'.nums[top].d>>]]_vars

\* a save made the root again under a name that had a value before clean()
C20_Witness ==
    /\ ret.op = "append"
    /\ ret.nums[1].mkdir
    /\ 1 \in ret.nums[1].issued

\* C21: every name that is a key of Saver._files has a history that is not
\* empty, whatever calls were made and whether they failed.
C21_KeysHaveFiles ==
    \A fn \in DOMAIN files : Len(files[fn]) >= 1

\* C22: last, save[...] and dump leave the names of the index, every history
\* and the files of the store root as they were, whether they return or raise.
C22_ReadsChangeNothing ==
    [][(calls' = calls + 1 /\ ret'.op \in {"last", "get", "dump"}) =>
          /\ DOMAIN files' = DOMAIN files
          /\ files' = files
          /\ disk' = disk
          /\ root' = root]_vars

\* C23: an rm that raises because a file it was to remove is missing leaves
\* the files of the store root and every history as they were before the call.
C23_FailedRmChangesNothing ==
    [][(calls' = calls + 1 /\ ret'.op = "rm"
        /\ ret'.status = "FileNotFoundError") =>
          /\ disk' = disk
          /\ \A fn \in Names : Hist(files', fn) = Hist(files, fn)]_vars

====
